---- MODULE Spec2Model ----
(***************************************************************************)
(* Pin validation and auto-fix of the HardcoreAI backend:                  *)
(* IntelligentHAL (hal_adapter.py).  One behaviour is one request: a HAL   *)
(* is constructed for a board key and validate_and_resolve runs on one     *)
(* pin_json.  The validation loop is one step, the auto-fix loop one step  *)
(* per issue.                                                              *)
(*                                                                         *)
(* Strings the code searches with regular expressions are modelled by      *)
(* what the search sees.  A component name is its sequence of tokens, each *)
(* a maximal run of word characters (\w+) or one separator.  A raw pin     *)
(* ("GPIO3", "D7", 2, "NC") is its non-digit prefix and its digit runs.    *)
(* An issue's message is kept as the template that built it and the        *)
(* values formatted into it.                                               *)
(***************************************************************************)
EXTENDS Integers, Sequences, FiniteSets, TLC

VARIABLES board_type, connections, pc, resolved, issues, used_pins,
          fixed_resolved, remaining_issues, fix_used_pins, idx,
          log,
          pin_usage, assigned_pins, mapper_call, mapper_calls,
          mapper_log, usage_report,
          states, chat_request, chat_intent, chat_response, generations,
          chat_count,
          board_specs, constraints, resolved_pins_h

\* The request in progress in validate_and_resolve.
halVars == <<board_type, connections, pc, resolved, issues, used_pins,
             fixed_resolved, remaining_issues, fix_used_pins, idx>>

\* The process-wide IntelligentPinMapper, its last call and what it returned;
\* what its calls since the last reset returned; the last usage report.
mapperVars == <<pin_usage, assigned_pins, mapper_call, mapper_calls,
                mapper_log, usage_report>>

\* The class attribute IntelligentHAL.BOARD_SPECS as the process holds it,
\* and what the last call of get_constraints returned.
catalogVars == <<board_specs, constraints>>

\* The pin header of the last assembled firmware.
asmVars == <<resolved_pins_h>>

\* The /chat endpoint: _conversation_state.states, the last request, the
\* intent it was classified as, the response to it, the number of calls of
\* generate_firmware and the number of requests so far.
chatVars == <<states, chat_request, chat_intent, chat_response, generations,
              chat_count>>

vars == <<halVars, log, mapperVars, catalogVars, asmVars, chatVars>>

(***************************************************************************)
(* Bounds of the model.                                                    *)
(***************************************************************************)
\* Longest pin_json (pin entries, over all connections) of the general inputs.
MaxBindings == 2
\* Entries that follow the first block of the other inputs.
MaxTail == 1
\* Calls of validate_and_resolve in one run of the process.
MaxRequests == 3
\* Calls of auto_assign_pins in one run of the process.
MaxCalls == 3
MaxMessages == 3

(***************************************************************************)
(* Python helpers.                                                         *)
(***************************************************************************)
\* list(range(lo, hi + 1))
Range(lo, hi) == [i \in 1..(hi - lo + 1) |-> lo + i - 1]

\* x in list
InList(x, list) == \E i \in DOMAIN list : list[i] = x

\* {}
EmptyDict == [k \in {} |-> 0]

\* d[k] = v (the key is added when absent)
DictSetFirst(d, k, v) ==
    [x \in DOMAIN d \cup {k} |-> IF x \in DOMAIN d THEN d[x] ELSE v]

DictSet(d, k, v) ==
    [x \in DOMAIN d \cup {k} |-> IF x = k THEN v ELSE d[x]]

\* set(d.values())
DictValues(d) == {d[k] : k \in DOMAIN d}

\* list[:n]
Take(list, n) == SubSeq(list, 1, IF n < Len(list) THEN n ELSE Len(list))

(***************************************************************************)
(* IntelligentHAL.BOARD_SPECS and the constructor's lookup.                *)
(***************************************************************************)
BOARD_SPECS ==
    [esp32 |->
        [available_gpio |-> Range(0, 39),
         pwm_capable |-> <<2, 4, 5, 12, 13, 14, 15, 16, 17, 18, 19, 21, 22,
                           23, 25, 26, 27, 32, 33>>,
         adc_capable |-> <<32, 33, 34, 35, 36, 39>>,
         reserved |-> <<0, 1, 6, 7, 8, 9, 10, 11>>],
     arduino_nano |->
        [available_gpio |-> <<2, 3, 4, 5, 6, 7, 8, 9, 10, 11, 12, 13>>,
         pwm_capable |-> <<3, 5, 6, 9, 10, 11>>,
         adc_capable |-> <<14, 15, 16, 17, 18, 19>>,
         reserved |-> <<0, 1>>],
     arduino_uno |->
        [available_gpio |-> <<2, 3, 4, 5, 6, 7, 8, 9, 10, 11, 12, 13>>,
         pwm_capable |-> <<3, 5, 6, 9, 10, 11>>,
         adc_capable |-> <<14, 15, 16, 17, 18, 19>>,
         reserved |-> <<0, 1>>]]

\* self.spec = self.BOARD_SPECS.get(board_type, self.BOARD_SPECS["esp32"])
\* self.spec is the catalog's own dict, not a copy.
HALSpec(board) ==
    IF board \in DOMAIN board_specs THEN board_specs[board]
    ELSE board_specs["esp32"]

\* get_constraints: the lists of self.spec (the i2c pins are not modelled)
PinConstraints(spec) ==
    [available_gpio |-> spec.available_gpio,
     pwm_capable |-> spec.pwm_capable,
     adc_capable |-> spec.adc_capable,
     reserved |-> spec.reserved]

NoConstraints == << >>

\* The class body has run; get_constraints was not called.
CatalogLoaded ==
    /\ board_specs = BOARD_SPECS
    /\ constraints = NoConstraints

(***************************************************************************)
(* Issues.  type and severity are ValidationIssue's fields; msg_* are the  *)
(* parts of its message: the template, and the pin, the capability word    *)
(* and the component formatted into it ("" and << >> when the template     *)
(* has no such part).  suggested_fix is the text of the advice and the     *)
(* pins it lists.                                                          *)
(***************************************************************************)
NoComponent == << >>

SuggestedFix(text, pins) == [text |-> text, pins |-> pins]

\* suggested_fix: Optional[str] = None
NoFix == SuggestedFix("None", << >>)

ValidationIssue(type, severity, template, pin, cap, component, fix) ==
    [type |-> type, severity |-> severity, msg_template |-> template,
     msg_pin |-> pin, msg_cap |-> cap, msg_component |-> component,
     suggested_fix |-> fix]

\* any(i.severity == "critical" for i in issues)
AnyCritical(iss) == \E k \in DOMAIN iss : iss[k].severity = "critical"

(***************************************************************************)
(* _parse_pin_number: re.search(r'\d+', str(pin_str)), the first digit     *)
(* run, 0 when there is none.                                              *)
(***************************************************************************)
_parse_pin_number(pin_str) ==
    IF pin_str.runs # << >> THEN pin_str.runs[1] ELSE 0

(***************************************************************************)
(* _validate_pin                                                           *)
(***************************************************************************)
\* The reserved-pin check
CheckReservedNever(spec, pin) == << >>

CheckReserved(spec, pin) ==
    IF InList(pin, spec.reserved)
    THEN <<ValidationIssue("reserved_pin", "warning", "is reserved",
                           pin, "", NoComponent,
                           SuggestedFix("Use different pin if possible",
                                        << >>))>>
    ELSE << >>

_validate_pin(board, pin, pin_type, component) ==
    LET spec == HALSpec(board) IN
    IF ~InList(pin, spec.available_gpio)
    THEN <<ValidationIssue("invalid_pin", "critical", "not available",
                           pin, "", NoComponent,
                           SuggestedFix("Use pin from",
                                        Take(spec.available_gpio, 5)))>>
    ELSE CheckReserved(spec, pin)
         \o
         (IF pin_type = "PWM" /\ ~InList(pin, spec.pwm_capable)
          THEN <<ValidationIssue("wrong_capability", "critical",
                                 "not capable for", pin, "PWM", component,
                                 SuggestedFix("Use PWM pin",
                                              Take(spec.pwm_capable, 3)))>>
          ELSE << >>)
         \o
         (IF pin_type = "ADC" /\ ~InList(pin, spec.adc_capable)
          THEN <<ValidationIssue("wrong_capability", "critical",
                                 "not capable for", pin, "ADC", component,
                                 SuggestedFix("Use ADC pin",
                                              Take(spec.adc_capable, 3)))>>
          ELSE << >>)

(***************************************************************************)
(* The validation loop of validate_and_resolve, from entry i on.  acc      *)
(* holds the locals issues, resolved and used_pins.  pin_json is taken     *)
(* flat: the entries of connection after connection, each with its         *)
(* connection's component.                                                 *)
(***************************************************************************)
RECURSIVE ValidateLoop(_, _, _, _)
ValidateLoop(board, conns, i, acc) ==
    IF i > Len(conns) THEN acc
    ELSE LET conn == conns[i]
             mcu_pin == _parse_pin_number(conn.mcu_pin)
             pin_issues ==
                 _validate_pin(board, mcu_pin, conn.type, conn.component)
             conflict ==
                 IF mcu_pin \in acc.used_pins
                 THEN <<ValidationIssue("conflict", "critical",
                                        "used by multiple components",
                                        mcu_pin, "", NoComponent,
                                        SuggestedFix("Reassign one component to different pin",
                                                     << >>))>>
                 ELSE << >>
         IN ValidateLoop(board, conns, i + 1,
                [issues |-> acc.issues \o pin_issues \o conflict,
                 used_pins |-> acc.used_pins \cup {mcu_pin},
                 resolved |-> DictSet(acc.resolved, conn.component, mcu_pin)])

\* The loop entered with what an earlier call left in resolved and used_pins.
ValidationStale(board, conns) ==
    ValidateLoop(board, conns, 1,
                 [issues |-> << >>, used_pins |-> used_pins,
                  resolved |-> resolved])

\* issues = []; resolved = {}; used_pins = set(); then the loop.
Validation(board, conns) ==
    ValidateLoop(board, conns, 1,
                 [issues |-> << >>, used_pins |-> {}, resolved |-> EmptyDict])

(***************************************************************************)
(* _auto_fix.  The searches of the issue's message:                        *)
(*   re.search(r'for (\w+)', message) finds the word that follows the      *)
(*   template's "for ", the first token of the component when that is a    *)
(*   word (no token of the model's names holds "for " itself);             *)
(*   "PWM" in message holds when the template was formatted with PWM or    *)
(*   when a token of the component holds the letters PWM.                  *)
(***************************************************************************)
Separators == {" "}
IsWord(token) == token \notin Separators

\* The tokens of the model's names that hold the substring.
TokensHolding(word) == IF word = "PWM" THEN {"PWM"} ELSE {}

NoMatch == << >>

\* component_match.group(1), as a name; NoMatch when component_match is None
ComponentMatch(issue) ==
    IF issue.msg_template = "not capable for"
       /\ issue.msg_component # << >> /\ IsWord(issue.msg_component[1])
    THEN <<issue.msg_component[1]>>
    ELSE NoMatch

\* word in issue.message
MessageHolds(issue, word) ==
    \/ issue.msg_cap = word
    \/ \E k \in DOMAIN issue.msg_component :
           issue.msg_component[k] \in TokensHolding(word)

\* for p in list: if p not in used: ...; break    (<<p>>, or << >> when the
\* loop ends without a break)
FirstFree(list, used) ==
    LET free == {i \in DOMAIN list : list[i] \notin used}
    IN IF free = {} THEN << >>
       ELSE <<list[CHOOSE i \in free : \A j \in free : i <= j]>>

\* The capability list the wrong_capability branch scans.
ScannedList(board, issue) ==
    IF MessageHolds(issue, "PWM") THEN HALSpec(board).pwm_capable
    ELSE IF MessageHolds(issue, "ADC") THEN HALSpec(board).adc_capable
    ELSE << >>

\* One iteration of the loop over issues.  st holds the locals
\* fixed_resolved, remaining_issues and used_pins.
AutoFixIssue(board, issue, st) ==
    IF issue.severity # "critical"
    THEN [st EXCEPT !.remaining_issues = Append(@, issue)]
    ELSE IF issue.type = "wrong_capability"
    THEN LET component == ComponentMatch(issue)
             found == FirstFree(ScannedList(board, issue), st.used_pins)
         IN IF component # NoMatch /\ found # << >>
            THEN [st EXCEPT
                    !.fixed_resolved = DictSet(@, component, found[1]),
                    !.used_pins = @ \cup {found[1]}]
            ELSE st
    ELSE IF issue.type = "invalid_pin"
    THEN [st EXCEPT !.remaining_issues =
            Append(@, ValidationIssue("auto_fixed", "warning",
                                      "Auto-fixed: not available",
                                      issue.msg_pin, "", NoComponent,
                                      NoFix))]
    ELSE st

(***************************************************************************)
(* IntelligentPinMapper (pin_mapper.py).  pin_usage maps a pin to the      *)
(* peripheral type that took it; a dict of pin roles is a function from    *)
(* role names to pins.                                                     *)
(***************************************************************************)
\* d.get(k, default)
DictGet(d, k, default) == IF k \in DOMAIN d THEN d[k] ELSE default

\* for pin in list: if pin not in self.pin_usage: return pin;  return list[0]
FirstUnused(list, usage) ==
    LET found == FirstFree(list, DOMAIN usage)
    IN IF found # << >> THEN found[1] ELSE list[1]

GpioDefaults ==
    [esp32 |-> <<2, 4, 5, 18, 19, 21, 22, 23>>,
     arduino_uno |-> Range(2, 13),
     arduino_mega |-> Range(2, 13),
     stm32 |-> Range(0, 5)]

_find_best_gpio(board, usage) ==
    FirstUnused(DictGet(GpioDefaults, board, <<2>>), usage)

PwmPins ==
    [esp32 |-> <<2, 4, 5, 12, 13, 14, 15, 16, 17, 18, 19, 21, 22, 23>>,
     arduino_uno |-> <<3, 5, 6, 9, 10, 11>>,
     arduino_mega |-> Range(2, 13),
     stm32 |-> Range(0, 3)]

_find_pwm_pin(board, usage) ==
    FirstUnused(DictGet(PwmPins, board, <<13>>), usage)

I2cDefaults ==
    [esp32 |-> [SDA |-> 21, SCL |-> 22],
     arduino_uno |-> [SDA |-> 18, SCL |-> 19],
     arduino_mega |-> [SDA |-> 20, SCL |-> 21],
     stm32 |-> [SDA |-> 9, SCL |-> 8]]

_find_i2c_pins(board) == DictGet(I2cDefaults, board, [SDA |-> 21, SCL |-> 22])

SpiDefaults ==
    [esp32 |-> [MOSI |-> 23, MISO |-> 19, SCK |-> 18, CS |-> 5],
     arduino_uno |-> [MOSI |-> 11, MISO |-> 12, SCK |-> 13, CS |-> 10],
     arduino_mega |-> [MOSI |-> 51, MISO |-> 50, SCK |-> 52, CS |-> 53],
     stm32 |-> [MOSI |-> 11, MISO |-> 12, SCK |-> 13, CS |-> 10]]

_find_spi_pins(board) == DictGet(SpiDefaults, board, SpiDefaults["esp32"])

UartDefaults ==
    [esp32 |-> [TX |-> 1, RX |-> 3],
     arduino_uno |-> [TX |-> 1, RX |-> 0],
     arduino_mega |-> [TX |-> 1, RX |-> 0],
     stm32 |-> [TX |-> 2, RX |-> 3]]

_find_uart_pins(board) == DictGet(UartDefaults, board, UartDefaults["esp32"])

\* The assigned_pins of auto_assign_pins, by peripheral type.
AssignedPins(board, peripheral, usage) ==
    IF peripheral = "led" THEN [LED |-> _find_best_gpio(board, usage)]
    ELSE IF peripheral \in {"dht22", "dht11"}
    THEN [DATA |-> _find_best_gpio(board, usage)]
    ELSE IF peripheral = "servo" THEN [SERVO |-> _find_pwm_pin(board, usage)]
    ELSE IF peripheral = "i2c" THEN _find_i2c_pins(board)
    ELSE IF peripheral = "spi" THEN _find_spi_pins(board)
    ELSE IF peripheral = "uart" THEN _find_uart_pins(board)
    ELSE EmptyDict

\* for role, pin in assigned_pins.items(): self.pin_usage[pin] = peripheral_type
MarkUsed(usage, assigned, peripheral) ==
    [pin \in DOMAIN usage \cup DictValues(assigned) |->
        IF pin \in DictValues(assigned) THEN peripheral ELSE usage[pin]]

\* auto_assign_pins: what it returns and the pin_usage it leaves.
auto_assign_pins(board, peripheral, usage) ==
    LET assigned == AssignedPins(board, peripheral, usage)
    IN [assigned_pins |-> assigned,
        pin_usage |-> MarkUsed(usage, assigned, peripheral)]

NoCall == [board_type |-> "", peripheral_type |-> ""]

\* pin_counts of detect_conflicts: one count per key of pin_usage.
PinCounts(usage) ==
    [pin \in DOMAIN usage |-> Cardinality({q \in DOMAIN usage : q = pin})]

\* detect_conflicts: its entries (pin and severity), as a set.
detect_conflicts(board, usage) ==
    {[pin |-> pin, severity |-> "error"] :
        pin \in {q \in DOMAIN usage : PinCounts(usage)[q] > 1}}

AllPins ==
    [esp32 |-> Range(0, 39),
     arduino_uno |-> Range(0, 19),
     arduino_mega |-> Range(0, 69),
     stm32 |-> Range(0, 49)]

\* [p for p in board_all_pins if p not in self.pin_usage]
_get_available_pins(board, usage) ==
    LET Unused(p) == p \notin DOMAIN usage
    IN SelectSeq(DictGet(AllPins, board, Range(0, 39)), Unused)

get_pin_usage_map(board, usage) ==
    [used_pins |-> usage,
     available_pins |-> _get_available_pins(board, usage),
     conflicts |-> detect_conflicts(board, usage)]

NoReport == << >>

\* pin_mapper = IntelligentPinMapper(), before any call.
MapperIdle ==
    /\ pin_usage = EmptyDict
    /\ assigned_pins = EmptyDict
    /\ mapper_call = NoCall
    /\ mapper_calls = 0
    /\ mapper_log = << >>
    /\ usage_report = NoReport

(***************************************************************************)
(* The /chat endpoint (main.py).  A message is the sequence of its words,  *)
(* which single spaces separate.  A test "word in msg" of the code is a    *)
(* substring test: WordsIn gives, for each word of the model's messages,   *)
(* the words of the code's lists that it holds.  Of the model's words only *)
(* "l298n" holds a word of the lists other than itself, and none holds the *)
(* first half or the second half of a two-word entry of a list.            *)
(***************************************************************************)
PyNone == "None"
NoRequest == << >>

\* bool(x) of a string or None
Truthy(x) == x \notin {PyNone, ""}

LowerOf == [ESP32 |-> "esp32", L298N |-> "l298n"]

\* message.lower()
Lower(message) ==
    [k \in DOMAIN message |->
        IF message[k] \in DOMAIN LowerOf THEN LowerOf[message[k]]
        ELSE message[k]]

confirmation_words ==
    {<<"yes">>, <<"yeah">>, <<"yep">>, <<"proceed">>, <<"generate">>,
     <<"ok">>, <<"okay">>, <<"sure">>, <<"go", "ahead">>, <<"do", "it">>,
     <<"confirm">>}

small_talk_patterns ==
    {<<"hi">>, <<"hello">>, <<"hey">>, <<"howdy">>, <<"greetings">>,
     <<"how", "are", "you">>, <<"what's", "up">>, <<"sup">>, <<"yo">>,
     <<"good", "morning">>, <<"good", "afternoon">>, <<"good", "evening">>,
     <<"thanks">>, <<"thank", "you">>, <<"bye">>, <<"goodbye">>,
     <<"who", "are", "you">>, <<"what", "are", "you">>, <<"help", "me">>}

build_keywords ==
    {<<"make">>, <<"build">>, <<"create">>, <<"control">>, <<"move">>,
     <<"drive">>, <<"spin">>, <<"blink">>, <<"flash">>, <<"read">>,
     <<"write">>, <<"connect">>, <<"setup">>, <<"configure">>, <<"motor">>,
     <<"led">>, <<"sensor">>, <<"servo">>, <<"display">>, <<"robot">>,
     <<"car">>, <<"forward">>, <<"backward">>, <<"left">>, <<"right">>,
     <<"stop">>, <<"start">>}

\* The words of the code's lists that are substrings of the word.
WordsIn(word) ==
    IF word = "l298n" THEN {"l298"}
    ELSE IF word = "okay" THEN {"ok", "okay"}
    ELSE {word}

\* phrase in msg
Holds(msg, phrase) ==
    \E k \in 0..(Len(msg) - Len(phrase)) :
        \A j \in DOMAIN phrase :
            IF Len(phrase) = 1 THEN phrase[j] \in WordsIn(msg[k + j])
            ELSE msg[k + j] = phrase[j]

\* msg.startswith(p) for p in ["hi ", "hello ", "hey "]
StartsWithGreeting(msg) ==
    Len(msg) > 1 /\ msg[1] \in {"hi", "hello", "hey"}

\* classify_intent without the test of the current state.
classify_intent_ungated(message, current_state) ==
    LET msg == Lower(message)
    IN IF \E word \in confirmation_words : Holds(msg, word)
       THEN "CONFIRMATION"
       ELSE IF msg \in small_talk_patterns \/ StartsWithGreeting(msg)
       THEN "SMALL_TALK"
       ELSE IF current_state = "CLARIFYING" THEN "CLARIFICATION"
       ELSE IF \E kw \in build_keywords : Holds(msg, kw) THEN "BUILD_INTENT"
       ELSE "SMALL_TALK"

classify_intent(message, current_state) ==
    LET msg == Lower(message)
    IN IF current_state = "READY"
          /\ \E word \in confirmation_words : Holds(msg, word)
       THEN "CONFIRMATION"
       ELSE IF msg \in small_talk_patterns \/ StartsWithGreeting(msg)
       THEN "SMALL_TALK"
       ELSE IF current_state = "CLARIFYING" THEN "CLARIFICATION"
       ELSE IF \E kw \in build_keywords : Holds(msg, kw) THEN "BUILD_INTENT"
       ELSE "SMALL_TALK"

BoardQuestion == "What board are you using?"
DriverQuestion == "What motor driver are you using?"
BehaviorQuestion == "Can you describe the behavior in more detail?"

\* generate_clarification_question; PyNone when nothing is missing
generate_clarification_question(context) ==
    IF ~Truthy(context.board) THEN BoardQuestion
    ELSE IF ~Truthy(context.driver)
            /\ Holds(Lower(context.pending_request), <<"motor">>)
    THEN DriverQuestion
    ELSE IF ~Truthy(context.behavior) THEN BehaviorQuestion
    ELSE PyNone

\* The context ConversationState.get creates and reset restores.
FreshContext ==
    [state |-> "IDLE",
     pending_request |-> NoRequest,
     board |-> PyNone,
     driver |-> PyNone,
     pins |-> EmptyDict,
     behavior |-> PyNone,
     last_question |-> PyNone]

\* ConversationState.get: the states after the call; the context it returns
\* is StatesGet(sts, project_id)[project_id].
StatesGet(sts, project_id) ==
    IF project_id \in DOMAIN sts THEN sts
    ELSE [p \in DOMAIN sts \cup {project_id} |->
            IF p = project_id THEN FreshContext ELSE sts[p]]

\* ConversationState.update with one keyword, and with the context given.
StatesPut(sts, project_id, context) ==
    [p \in DOMAIN sts \cup {project_id} |->
        IF p = project_id THEN context ELSE sts[p]]

\* ConversationState.reset
StatesReset(sts, project_id) == StatesPut(sts, project_id, FreshContext)

ChatResponse(status, response_type, state) ==
    [status |-> status, response_type |-> response_type, state |-> state]

\* The CLARIFICATION branch: the board and the driver the answer names.
AnsweredBoard(msg, context) ==
    IF Holds(msg, <<"esp32">>) THEN [context EXCEPT !.board = "esp32dev"]
    ELSE IF Holds(msg, <<"arduino">>)
    THEN [context EXCEPT !.board = "arduino_uno"]
    ELSE IF Holds(msg, <<"stm32">>) THEN [context EXCEPT !.board = "stm32"]
    ELSE context

AnsweredDriver(msg, context) ==
    IF Holds(msg, <<"l298">>) THEN [context EXCEPT !.driver = "L298N"]
    ELSE IF Holds(msg, <<"l293">>) THEN [context EXCEPT !.driver = "L293D"]
    ELSE context

\* The end of the CLARIFICATION and BUILD_INTENT branches: the next question
\* is recorded and asked, or the conversation becomes READY.
AskOrReady(sts, project_id, intent) ==
    LET ctx == sts[project_id]
        next_question == generate_clarification_question(ctx)
    IN IF Truthy(next_question)
       THEN [states |-> StatesPut(sts, project_id,
                            [ctx EXCEPT !.last_question = next_question]),
             intent |-> intent,
             response |-> ChatResponse("success", "clarification",
                                       "CLARIFYING"),
             generated |-> 0]
       ELSE [states |-> StatesPut(sts, project_id,
                            [ctx EXCEPT !.state = "READY"]),
             intent |-> intent,
             response |-> ChatResponse("success", "clarification", "READY"),
             generated |-> 0]

\* board=request.detected_board or request.board_type
\*       if request.board_type != "unknown" else None
RequestBoard(request) ==
    IF request.board_type # "unknown"
    THEN IF Truthy(request.detected_board) THEN request.detected_board
         ELSE request.board_type
    ELSE PyNone

\* The handler of POST /chat.  generation_ok tells whether
\* generate_firmware, validate_and_resolve and assemble return or one of
\* them raises; they keep no state of the conversation.
chat_with_ai(sts, request, generation_ok) ==
    LET got == StatesGet(sts, request.project_id)
        ctx == got[request.project_id]
        current_state == ctx.state
        intent == classify_intent(request.message, current_state)
    IN IF intent = "SMALL_TALK"
       THEN [states |-> got,
             intent |-> intent,
             response |-> ChatResponse("success", "text", current_state),
             generated |-> 0]
       ELSE IF intent = "CLARIFICATION"
       THEN LET msg == Lower(request.message)
                answered == AnsweredDriver(msg, AnsweredBoard(msg, ctx))
            IN AskOrReady(StatesPut(got, request.project_id, answered),
                          request.project_id, intent)
       ELSE IF intent = "BUILD_INTENT"
       THEN AskOrReady(
                StatesPut(got, request.project_id,
                          [ctx EXCEPT !.state = "CLARIFYING",
                                      !.pending_request = request.message,
                                      !.board = RequestBoard(request)]),
                request.project_id, intent)
       ELSE IF generation_ok
       THEN [states |-> StatesReset(got, request.project_id),
             intent |-> intent,
             response |-> ChatResponse("success", "code", "IDLE"),
             generated |-> 1]
       ELSE [states |-> StatesPut(got, request.project_id,
                                  [ctx EXCEPT !.state = "READY"]),
             intent |-> intent,
             response |-> ChatResponse("error", "text", "READY"),
             generated |-> 1]

NoChatRequest == << >>
NoChatResponse == << >>

\* _conversation_state = ConversationState(), before any request.
ChatIdle ==
    /\ states = EmptyDict
    /\ chat_request = NoChatRequest
    /\ chat_intent = ""
    /\ chat_response = NoChatResponse
    /\ generations = 0
    /\ chat_count = 0

(***************************************************************************)
(* FirmwareAssembler._generate_pin_header (firmware_gen.py).  The header   *)
(* is the sequence of its #define lines: the name, made of the component   *)
(* in upper case and the pin type, and the value, the text of mcu_pin.     *)
(***************************************************************************)
UpperOf == [Servo |-> "SERVO", Motor |-> "MOTOR"]

\* token.upper(), for the tokens of the model's names
Upper(token) == IF token \in DOMAIN UpperOf THEN UpperOf[token] ELSE token

UpperName(component) == [k \in DOMAIN component |-> Upper(component[k])]

_generate_pin_header(conns, resolved_pins) ==
    [k \in DOMAIN conns |->
        [component |-> UpperName(conns[k].component),
         type |-> conns[k].type,
         value |-> conns[k].mcu_pin]]

NoHeader == << >>

NothingAssembled == resolved_pins_h = NoHeader

(***************************************************************************)
(* The requests of the model.                                              *)
(***************************************************************************)
\* arduino_nano has the lists of arduino_uno.
BoardKeys == {"esp32", "arduino_uno", "unknown_board_xyz"}

ComponentNames ==
    {<<"LED">>, <<"Servo">>, <<"Servo", " ", "Motor">>, <<"PWM">>}

RawPin(prefix, runs) == [prefix |-> prefix, runs |-> runs]

\* "2", "GPIO3", "D50" and "NC"
RawPins ==
    {RawPin("", <<2>>), RawPin("GPIO", <<3>>), RawPin("D", <<50>>),
     RawPin("NC", << >>)}

PinTypes == {"GPIO", "PWM", "ADC"}

Entries ==
    [component : ComponentNames, mcu_pin : RawPins, type : PinTypes]

SeqsUpTo(S, n) == UNION {[1..m -> S] : m \in 0..n}

FillerTokens ==
    <<"F01", "F02", "F03", "F04", "F05", "F06", "F07", "F08", "F09", "F10",
      "F11", "F12", "F13", "F14", "F15", "F16", "F17", "F18", "F19">>

\* One component per pin of the board's PWM (ADC) list, each declared with
\* that role.
Filler(board, cap) ==
    LET list == IF cap = "PWM" THEN HALSpec(board).pwm_capable
                ELSE HALSpec(board).adc_capable
    IN [i \in DOMAIN list |->
           [component |-> <<FillerTokens[i]>>,
            mcu_pin |-> RawPin("", <<list[i]>>), type |-> cap]]

\* A connection with two GPIO pins: two entries of one component.
TwoPinConnections ==
    {<<[component |-> c, mcu_pin |-> p, type |-> "GPIO"],
       [component |-> c, mcu_pin |-> q, type |-> "GPIO"]>> :
        c \in ComponentNames, p \in RawPins, q \in RawPins}

\* Three components declared on one pin.
SharedPinConnections ==
    {<<[component |-> <<"LED">>, mcu_pin |-> p, type |-> "GPIO"],
       [component |-> <<"Servo">>, mcu_pin |-> p, type |-> t],
       [component |-> <<"PWM">>, mcu_pin |-> p, type |-> u]>> :
        p \in RawPins, t \in PinTypes, u \in PinTypes}

\* Every pin_json of at most MaxBindings entries; those of three components
\* on one pin; and, each before at most MaxTail more entries, the pin_jsons
\* that claim every PWM (ADC) pin of the board and those that start with a
\* two-pin connection.
Inputs(board) ==
    SeqsUpTo(Entries, MaxBindings)
    \cup SharedPinConnections
    \cup {first \o tail :
             first \in {Filler(board, "PWM"), Filler(board, "ADC")}
                          \cup TwoPinConnections,
             tail \in SeqsUpTo(Entries, MaxTail)}

(***************************************************************************)
(* The state machine.                                                      *)
(***************************************************************************)
\* IntelligentHAL(board) and the locals of validate_and_resolve before
\* its loop.
Init ==
    /\ CatalogLoaded
    /\ NothingAssembled
    /\ board_type \in BoardKeys
    /\ connections \in Inputs(board_type)
    /\ pc = "start"
    /\ resolved = EmptyDict
    /\ issues = << >>
    /\ used_pins = {}
    /\ fixed_resolved = EmptyDict
    /\ remaining_issues = << >>
    /\ fix_used_pins = {}
    /\ idx = 0
    /\ log = << >>
    /\ MapperIdle
    /\ ChatIdle

\* The loop over connections and their pins.
Validate ==
    /\ pc = "start"
    /\ LET v == Validation(board_type, connections)
       IN /\ issues' = v.issues
          /\ resolved' = v.resolved
          /\ used_pins' = v.used_pins
    /\ pc' = "validated"
    /\ UNCHANGED <<board_type, connections, fixed_resolved, remaining_issues,
                   fix_used_pins, idx>>
    /\ UNCHANGED <<log, mapperVars, catalogVars, asmVars, chatVars>>

\* No critical issue: return resolved, issues.
ReturnValid ==
    /\ pc = "validated"
    /\ ~AnyCritical(issues)
    /\ pc' = "done"
    /\ UNCHANGED <<board_type, connections, resolved, issues, used_pins,
                   fixed_resolved, remaining_issues, fix_used_pins, idx>>
    /\ UNCHANGED <<log, mapperVars, catalogVars, asmVars, chatVars>>

\* The call of _auto_fix and its first lines.
AutoFixBegin ==
    /\ pc = "validated"
    /\ AnyCritical(issues)
    /\ fixed_resolved' = resolved
    /\ remaining_issues' = << >>
    /\ fix_used_pins' = DictValues(resolved)
    /\ idx' = 1
    /\ pc' = "fixing"
    /\ UNCHANGED <<board_type, connections, resolved, issues, used_pins>>
    /\ UNCHANGED <<log, mapperVars, catalogVars, asmVars, chatVars>>

\* One iteration of for issue in issues.
AutoFixStep ==
    /\ pc = "fixing"
    /\ idx <= Len(issues)
    /\ LET st == AutoFixIssue(board_type, issues[idx],
                     [fixed_resolved |-> fixed_resolved,
                      remaining_issues |-> remaining_issues,
                      used_pins |-> fix_used_pins])
       IN /\ fixed_resolved' = st.fixed_resolved
          /\ remaining_issues' = st.remaining_issues
          /\ fix_used_pins' = st.used_pins
    /\ idx' = idx + 1
    /\ UNCHANGED <<board_type, connections, pc, resolved, issues, used_pins>>
    /\ UNCHANGED <<log, mapperVars, catalogVars, asmVars, chatVars>>

\* _auto_fix returns; resolved, issues = its result; return resolved, issues.
AutoFixReturn ==
    /\ pc = "fixing"
    /\ idx > Len(issues)
    /\ resolved' = fixed_resolved
    /\ issues' = remaining_issues
    /\ pc' = "done"
    /\ UNCHANGED <<board_type, connections, used_pins, fixed_resolved,
                   remaining_issues, fix_used_pins, idx>>
    /\ UNCHANGED <<log, mapperVars, catalogVars, asmVars, chatVars>>

Next ==
    \/ Validate
    \/ ReturnValid
    \/ AutoFixBegin
    \/ AutoFixStep
    \/ AutoFixReturn

Spec == Init /\ [][Next]_vars

(***************************************************************************)
(* A process that serves several requests, one after the other: each       *)
(* builds an IntelligentHAL for its board and calls validate_and_resolve   *)
(* (main.py, generate_firmware and chat_with_ai).  log keeps what the      *)
(* earlier calls were given and what they returned.                        *)
(***************************************************************************)
Entry(component, mcu_pin, type) ==
    [component |-> component, mcu_pin |-> mcu_pin, type |-> type]

ReplayBoards == {"esp32", "arduino_uno"}

ReplayInputs ==
    {<< >>,
     <<Entry(<<"LED">>, RawPin("", <<2>>), "GPIO"),
       Entry(<<"Servo">>, RawPin("", <<2>>), "PWM")>>,
     <<Entry(<<"Servo">>, RawPin("GPIO", <<3>>), "PWM")>>,
     <<Entry(<<"LED">>, RawPin("", <<2>>), "GPIO"),
       Entry(<<"Servo">>, RawPin("GPIO", <<3>>), "PWM")>>,
     <<Entry(<<"Servo">>, RawPin("GPIO", <<3>>), "PWM"),
       Entry(<<"LED">>, RawPin("", <<2>>), "GPIO")>>,
     <<Entry(<<"LED">>, RawPin("D", <<50>>), "ADC"),
       Entry(<<"Servo">>, RawPin("NC", << >>), "GPIO")>>}

Result ==
    [board_type |-> board_type, connections |-> connections,
     resolved |-> resolved, issues |-> issues]

ReplayInit ==
    /\ CatalogLoaded
    /\ NothingAssembled
    /\ board_type \in ReplayBoards
    /\ connections \in ReplayInputs
    /\ pc = "start"
    /\ resolved = EmptyDict
    /\ issues = << >>
    /\ used_pins = {}
    /\ fixed_resolved = EmptyDict
    /\ remaining_issues = << >>
    /\ fix_used_pins = {}
    /\ idx = 0
    /\ log = << >>
    /\ MapperIdle
    /\ ChatIdle

\* assembler.assemble(firmware_package, board, resolved_pins): its pin header.
Assemble ==
    /\ pc = "done"
    /\ resolved_pins_h' = _generate_pin_header(connections, resolved)
    /\ pc' = "assembled"
    /\ UNCHANGED <<board_type, connections, resolved, issues, used_pins,
                   fixed_resolved, remaining_issues, fix_used_pins, idx>>
    /\ UNCHANGED <<log, mapperVars, catalogVars, chatVars>>

\* As GetConstraints, by a caller that empties the list it was given.
GetConstraintsAndClear ==
    /\ pc = "start"
    /\ constraints = NoConstraints
    /\ constraints' = [PinConstraints(HALSpec(board_type))
                          EXCEPT !.reserved = << >>]
    /\ board_specs' =
           [b \in DOMAIN board_specs |->
               IF board_specs[b] = HALSpec(board_type)
               THEN [board_specs[b] EXCEPT !.reserved = << >>]
               ELSE board_specs[b]]
    /\ UNCHANGED <<halVars, log, mapperVars, asmVars, chatVars>>

\* hal.get_constraints(), on the HAL of the request, before it resolves.
GetConstraints ==
    /\ pc = "start"
    /\ constraints = NoConstraints
    /\ constraints' = PinConstraints(HALSpec(board_type))
    /\ UNCHANGED <<halVars, log, mapperVars, board_specs, asmVars, chatVars>>

\* The request has been served; the next request builds its HAL and calls
\* validate_and_resolve.  The locals of the call that ended mean nothing to
\* the new call until it assigns them.
NewRequest ==
    /\ pc = "assembled"
    /\ Len(log) + 1 < MaxRequests
    /\ log' = Append(log, Result)
    /\ board_type' \in ReplayBoards
    /\ connections' \in ReplayInputs
    /\ pc' = "start"
    /\ constraints' = NoConstraints
    /\ UNCHANGED <<resolved, issues, used_pins, fixed_resolved,
                   remaining_issues, fix_used_pins, idx>>
    /\ UNCHANGED <<mapperVars, board_specs, asmVars, chatVars>>

ReplayNext ==
    \/ Validate
    \/ ReturnValid
    \/ AutoFixBegin
    \/ AutoFixStep
    \/ AutoFixReturn
    \/ Assemble
    \/ GetConstraints
    \/ NewRequest

ReplaySpec == ReplayInit /\ [][ReplayNext]_vars

(***************************************************************************)
(* The calls of auto_assign_pins on the one IntelligentPinMapper of the    *)
(* process.  A call runs without suspension, so it is one step.            *)
(***************************************************************************)
MapperBoards == {"esp32", "arduino_uno", "stm32", "unknown_board_xyz"}

PeripheralTypes ==
    {"led", "dht22", "dht11", "servo", "i2c", "spi", "uart", "custom"}

MapperInit ==
    /\ CatalogLoaded
    /\ NothingAssembled
    /\ board_type = "esp32"
    /\ connections = << >>
    /\ pc = "start"
    /\ resolved = EmptyDict
    /\ issues = << >>
    /\ used_pins = {}
    /\ fixed_resolved = EmptyDict
    /\ remaining_issues = << >>
    /\ fix_used_pins = {}
    /\ idx = 0
    /\ log = << >>
    /\ MapperIdle
    /\ ChatIdle

AutoAssignPins ==
    /\ mapper_calls < MaxCalls
    /\ \E board \in MapperBoards, peripheral \in PeripheralTypes :
          LET r == auto_assign_pins(board, peripheral, pin_usage)
          IN /\ assigned_pins' = r.assigned_pins
             /\ pin_usage' = r.pin_usage
             /\ mapper_call' = [board_type |-> board,
                                peripheral_type |-> peripheral]
             /\ mapper_log' = Append(mapper_log,
                                     [board_type |-> board,
                                      peripheral_type |-> peripheral,
                                      assigned_pins |-> r.assigned_pins])
    /\ mapper_calls' = mapper_calls + 1
    /\ UNCHANGED usage_report
    /\ UNCHANGED <<halVars, log, catalogVars, asmVars, chatVars>>

\* get_pin_usage_map(board_type), after a call, for the board of the call.
GetPinUsageMap ==
    /\ mapper_calls > 0
    /\ usage_report' = get_pin_usage_map(mapper_call.board_type, pin_usage)
    /\ usage_report' # usage_report
    /\ UNCHANGED <<pin_usage, assigned_pins, mapper_call, mapper_calls,
                   mapper_log>>
    /\ UNCHANGED <<halVars, log, catalogVars, asmVars, chatVars>>

\* reset()
Reset ==
    /\ pin_usage # EmptyDict
    /\ pin_usage' = EmptyDict
    /\ mapper_log' = << >>
    /\ UNCHANGED <<assigned_pins, mapper_call, mapper_calls, usage_report>>
    /\ UNCHANGED <<halVars, log, catalogVars, asmVars, chatVars>>

MapperNext ==
    \/ AutoAssignPins
    \/ GetPinUsageMap
    \/ Reset

MapperSpec == MapperInit /\ [][MapperNext]_vars

(***************************************************************************)
(* Requests to POST /chat, one after the other, for two projects.          *)
(***************************************************************************)
ProjectIds == {"current_project", "project_2"}

Messages ==
    {<<"hi">>,
     <<"hello", "there">>,
     <<"yes">>,
     <<"go", "ahead">>,
     <<"make", "a", "robot", "with", "a", "motor">>,
     <<"blink", "the", "led">>,
     <<"blink", "every", "second">>,
     <<"ESP32">>,
     <<"L298N">>}

ChatRequest(message, project_id, board, detected_board) ==
    [message |-> message, project_id |-> project_id,
     board_type |-> board, detected_board |-> detected_board]

ChatRequests ==
    {ChatRequest(m, p, b[1], b[2]) :
        m \in Messages, p \in ProjectIds,
        b \in {<<"unknown", PyNone>>, <<"esp32", PyNone>>,
               <<"esp32", "arduino_uno">>}}

ChatInit ==
    /\ CatalogLoaded
    /\ NothingAssembled
    /\ board_type = "esp32"
    /\ connections = << >>
    /\ pc = "start"
    /\ resolved = EmptyDict
    /\ issues = << >>
    /\ used_pins = {}
    /\ fixed_resolved = EmptyDict
    /\ remaining_issues = << >>
    /\ fix_used_pins = {}
    /\ idx = 0
    /\ log = << >>
    /\ MapperIdle
    /\ ChatIdle

\* The outcomes of the generation the request can see: none is seen unless
\* the request is classified CONFIRMATION.
Outcomes(request) ==
    IF classify_intent(request.message,
                       StatesGet(states, request.project_id)
                           [request.project_id].state) = "CONFIRMATION"
    THEN BOOLEAN
    ELSE {TRUE}

ChatWithAi ==
    /\ chat_count < MaxMessages
    /\ \E request \in ChatRequests :
       \E generation_ok \in Outcomes(request) :
         LET r == chat_with_ai(states, request, generation_ok)
         IN /\ states' = r.states
            /\ chat_request' = request
            /\ chat_intent' = r.intent
            /\ chat_response' = r.response
            /\ generations' = generations + r.generated
    /\ chat_count' = chat_count + 1
    /\ UNCHANGED <<halVars, log, mapperVars, catalogVars, asmVars>>

ChatNext == ChatWithAi

ChatSpec == ChatInit /\ [][ChatNext]_vars

(***************************************************************************)
(* Vocabulary of the properties.  A binding is one entry of pin_json.  The *)
(* returned mapping has one pin per component, so it speaks for the last   *)
(* entry of each component; an earlier entry of the same component keeps   *)
(* the pin it declares.                                                    *)
(***************************************************************************)
Bindings == DOMAIN connections
Component(i) == connections[i].component
Role(i) == connections[i].type
Parsed(i) == _parse_pin_number(connections[i].mcu_pin)

IsLastEntry(i) ==
    \A j \in Bindings : j > i => Component(j) # Component(i)

OneEntryPerComponent ==
    \A i, j \in Bindings : i # j => Component(i) # Component(j)

\* The mapping as it stands: the repair's copy while it runs.
CurrentMap == IF pc = "fixing" THEN fixed_resolved ELSE resolved

\* The pin binding i holds, from the end of the validation loop on.
Held(i) == IF IsLastEntry(i) THEN CurrentMap[Component(i)] ELSE Parsed(i)

HeldPins == {Held(i) : i \in Bindings}

BoardSpec == HALSpec(board_type)

\* The issues validation raises, before any repair.
IssuesBefore == Validation(board_type, connections).issues

\* Binding i has a Critical issue before the repair: one of its own, or its
\* pin is also declared by another binding.
HasCriticalBefore(i) ==
    \/ AnyCritical(_validate_pin(board_type, Parsed(i), Role(i), Component(i)))
    \/ \E j \in Bindings : j # i /\ Parsed(j) = Parsed(i)

\* The returned list holds a Critical issue about binding i: one that names
\* its component, the pin it declared or the pin it holds.
UnresolvedCritical(i) ==
    \E k \in DOMAIN issues :
        /\ issues[k].severity = "critical"
        /\ \/ issues[k].msg_component = Component(i)
           \/ issues[k].msg_pin \in {Parsed(i), Held(i)}

\* The pins of the capability a role requires.
RequiredList(role) ==
    IF role = "PWM" THEN BoardSpec.pwm_capable
    ELSE IF role = "ADC" THEN BoardSpec.adc_capable
    ELSE << >>

ListPins(list) == {list[k] : k \in DOMAIN list}

(***************************************************************************)
(* C1.  After resolve, two bindings of different components that hold the  *)
(* same pin are never silent: the returned list holds an unresolved        *)
(* Critical issue about one of them.  (C1 to C4 are stated for inputs with *)
(* one entry per component.)                                               *)
(***************************************************************************)
C1_NoSilentDuplicate ==
    (pc = "done" /\ OneEntryPerComponent) =>
        \A i, j \in Bindings :
            (i < j /\ Held(i) = Held(j)) =>
                (UnresolvedCritical(i) \/ UnresolvedCritical(j))

(***************************************************************************)
(* C2.  After resolve, a PWM (ADC) binding with no unresolved Critical     *)
(* issue in the returned list holds a pin of pwm_capable (adc_capable).    *)
(***************************************************************************)
C2_CapabilitySatisfied ==
    (pc = "done" /\ OneEntryPerComponent) =>
        \A i \in Bindings :
            (Role(i) \in {"PWM", "ADC"} /\ ~UnresolvedCritical(i)) =>
                Held(i) \in ListPins(RequiredList(Role(i)))

(***************************************************************************)
(* C3.  A binding with no Critical issue before resolve holds the same pin *)
(* after resolve, whatever is repaired in the same set.                    *)
(***************************************************************************)
C3_FrozenBindingUnchanged ==
    (pc = "done" /\ OneEntryPerComponent) =>
        \A i \in Bindings : ~HasCriticalBefore(i) => Held(i) = Parsed(i)

(***************************************************************************)
(* C4.  After a resolve that returns no Critical issue, the bindings hold  *)
(* pairwise distinct pins and every pin is one of available_gpio.          *)
(***************************************************************************)
C4_SuccessfulResolveInvariant ==
    (pc = "done" /\ OneEntryPerComponent /\ ~AnyCritical(issues)) =>
        /\ \A i, j \in Bindings : i # j => Held(i) # Held(j)
        /\ \A i \in Bindings : Held(i) \in ListPins(BoardSpec.available_gpio)

(***************************************************************************)
(* C5.  The repair pass introduces no duplicate: while it runs and when it *)
(* has ended, two bindings of different components hold the same pin only  *)
(* if they declared the same pin before the pass.                          *)
(***************************************************************************)
C5_RepairAddsNoDuplicate ==
    pc \in {"fixing", "done"} =>
        \A i, j \in Bindings :
            (Component(i) # Component(j) /\ Held(i) = Held(j)) =>
                Parsed(i) = Parsed(j)

(***************************************************************************)
(* C6.  When the repair comes to the Critical issue of a PWM binding and   *)
(* every PWM pin of the board is held, the mapping is left as it is and    *)
(* the issue itself is kept in the list that is returned.  (The claim      *)
(* covers ADC alike; PWM is the case it names.)                            *)
(***************************************************************************)
C6_ExhaustionKeepsIssue ==
    [][(/\ pc = "fixing"
        /\ idx <= Len(issues)
        /\ issues[idx].type = "wrong_capability"
        /\ issues[idx].msg_cap = "PWM"
        /\ ListPins(BoardSpec.pwm_capable) \subseteq HeldPins)
       => (/\ fixed_resolved' = fixed_resolved
           /\ InList(issues[idx], remaining_issues'))]_vars

(***************************************************************************)
(* C7.  resolve ends in no error state, and a binding that needs a PWM pin *)
(* when every PWM pin is held shows as a Critical issue in the returned    *)
(* list: exhaustion is reported as data.                                   *)
(***************************************************************************)
C7_TotalAndExhaustionAsData ==
    /\ pc \in {"start", "validated", "fixing", "done"}
    /\ (/\ pc = "done"
        /\ \E i \in Bindings :
              /\ Role(i) = "PWM"
              /\ Held(i) \notin ListPins(BoardSpec.pwm_capable)
              /\ ListPins(BoardSpec.pwm_capable) \subseteq HeldPins)
       => AnyCritical(issues)

(***************************************************************************)
(* C8.  When validation raises no Critical issue, resolve returns every    *)
(* component of the input with the pin it declares, and a list of Warning  *)
(* issues only: one reserved-pin Warning per entry on a reserved pin.      *)
(***************************************************************************)
ReservedEntries ==
    {i \in Bindings : /\ InList(Parsed(i), BoardSpec.available_gpio)
                      /\ InList(Parsed(i), BoardSpec.reserved)}

C8_ValidInputIsNoOp ==
    (pc = "done" /\ ~AnyCritical(IssuesBefore)) =>
        /\ DOMAIN resolved = {Component(i) : i \in Bindings}
        /\ \A i \in Bindings : Held(i) = Parsed(i)
        /\ \A k \in DOMAIN issues :
              /\ issues[k].severity = "warning"
              /\ issues[k].type = "reserved_pin"
              /\ \E i \in ReservedEntries : issues[k].msg_pin = Parsed(i)
        /\ Len(issues) = Cardinality(ReservedEntries)

C8_Witness ==
    /\ pc = "done"
    /\ ~AnyCritical(IssuesBefore)
    /\ Len(connections) = 2
    /\ Component(1) # Component(2)
    /\ Len(issues) = 1

(***************************************************************************)
(* C9.  When the repair moves a binding, the new pin is the numerically    *)
(* lowest pin of the capability its role requires that is not in used_pins *)
(* at that moment.  (Stated for inputs with one entry per component.)      *)
(***************************************************************************)
LowestFree(role, used) ==
    LET free == ListPins(RequiredList(role)) \ used
    IN CHOOSE p \in free : \A q \in free : p <= q

C9_RepairPicksLowestOfRole ==
    [][(/\ pc = "fixing"
        /\ OneEntryPerComponent
        /\ idx <= Len(issues)
        /\ issues[idx].type = "wrong_capability"
        /\ fixed_resolved'[issues[idx].msg_component]
               # fixed_resolved[issues[idx].msg_component])
       => (/\ ListPins(RequiredList(issues[idx].msg_cap)) \ fix_used_pins # {}
           /\ fixed_resolved'[issues[idx].msg_component]
                  = LowestFree(issues[idx].msg_cap, fix_used_pins))]_vars

(***************************************************************************)
(* C10.  On esp32, LED (GPIO) and Servo (PWM) both on pin 2: resolve       *)
(* returns different pins for the two, no Critical duplicate issue, and    *)
(* one Warning that records the fix.                                       *)
(***************************************************************************)
Scenario1 ==
    <<[component |-> <<"LED">>, mcu_pin |-> RawPin("", <<2>>),
       type |-> "GPIO"],
      [component |-> <<"Servo">>, mcu_pin |-> RawPin("", <<2>>),
       type |-> "PWM"]>>

C10_SharedPinScenario ==
    (pc = "done" /\ board_type = "esp32" /\ connections = Scenario1) =>
        /\ resolved[<<"LED">>] # resolved[<<"Servo">>]
        /\ ~\E k \in DOMAIN issues :
               issues[k].severity = "critical" /\ issues[k].type = "conflict"
        /\ Cardinality({k \in DOMAIN issues :
                           issues[k].severity = "warning"}) = 1

(***************************************************************************)
(* C11.  A GPIO binding whose pin is not one of available_gpio ends on a   *)
(* pin of available_gpio, a reserved one only when every non-reserved pin  *)
(* is held; and two GPIO bindings declared on one pin end on different     *)
(* pins.  (Stated for inputs with one entry per component.)                *)
(***************************************************************************)
NonReservedPins ==
    ListPins(BoardSpec.available_gpio) \ ListPins(BoardSpec.reserved)

C11_GpioRepairPrefersNonReserved ==
    (pc = "done" /\ OneEntryPerComponent) =>
        /\ \A i \in Bindings :
              (/\ Role(i) = "GPIO"
               /\ Parsed(i) \notin ListPins(BoardSpec.available_gpio)) =>
                  /\ Held(i) \in ListPins(BoardSpec.available_gpio)
                  /\ Held(i) \in ListPins(BoardSpec.reserved) =>
                         NonReservedPins \subseteq HeldPins
        /\ \A i, j \in Bindings :
              (/\ i < j
               /\ Role(i) = "GPIO" /\ Role(j) = "GPIO"
               /\ Parsed(i) = Parsed(j)) => Held(i) # Held(j)

(***************************************************************************)
(* C12.  After resolve, a binding that holds another pin than it declared  *)
(* has exactly one Warning of the kind of its Critical issue whose         *)
(* suggestion is the new pin, and every auto-fix Warning is about a        *)
(* binding whose pin was changed.  (One entry per component.)              *)
(***************************************************************************)
FixWarningsFor(i) ==
    {k \in DOMAIN issues :
        /\ issues[k].severity = "warning"
        /\ issues[k].type \in {"wrong_capability", "conflict", "invalid_pin"}
        /\ issues[k].suggested_fix.pins = <<Held(i)>>}

C12_OneWarningPerReassignment ==
    (pc = "done" /\ OneEntryPerComponent) =>
        /\ \A i \in Bindings :
              Held(i) # Parsed(i) => Cardinality(FixWarningsFor(i)) = 1
        /\ \A k \in DOMAIN issues :
              issues[k].type = "auto_fixed" =>
                  \E i \in Bindings : /\ issues[k].msg_pin = Parsed(i)
                                      /\ Held(i) # Parsed(i)

(***************************************************************************)
(* C13.  Two calls of validate_and_resolve with the same board key and the *)
(* same pin_json return the same mapping and the same issues in the same   *)
(* order, whatever calls ran in between.                                   *)
(***************************************************************************)
Completed ==
    {log[k] : k \in DOMAIN log}
    \cup (IF pc \in {"done", "assembled"} THEN {Result} ELSE {})

C13_ResolveIsDeterministic ==
    \A a, b \in Completed :
        (a.board_type = b.board_type /\ a.connections = b.connections) =>
            (a.resolved = b.resolved /\ a.issues = b.issues)

C13_Witness ==
    /\ pc = "done"
    /\ Len(log) = 2
    /\ log[1].board_type = board_type /\ log[1].connections = connections
    /\ log[2].connections # connections
    /\ log[2].resolved # Validation(log[2].board_type,
                                    log[2].connections).resolved
    /\ resolved # Validation(board_type, connections).resolved

(***************************************************************************)
(* C14.  What a call of auto_assign_pins returns depends on its own        *)
(* arguments only: it is what the same call returns on a mapper that has   *)
(* served no call.                                                         *)
(***************************************************************************)
C14_AssignmentIsRequestScoped ==
    mapper_calls > 0 =>
        assigned_pins =
            auto_assign_pins(mapper_call.board_type,
                             mapper_call.peripheral_type,
                             EmptyDict).assigned_pins

(***************************************************************************)
(* C15.  When the validation loop has ended, the issues hold one Critical  *)
(* invalid_pin issue per binding on a pin that is not in available_gpio    *)
(* and none for other pins, one Warning reserved_pin issue per binding on  *)
(* a pin of available_gpio that is reserved and none for other pins, and   *)
(* no pin has both.                                                        *)
(***************************************************************************)
IssuesOf(type, pin) ==
    {k \in DOMAIN issues : issues[k].type = type /\ issues[k].msg_pin = pin}

BindingsOn(pin) == {i \in Bindings : Parsed(i) = pin}

C15_InvalidXorReserved ==
    pc = "validated" =>
        \A p \in {Parsed(i) : i \in Bindings} :
            /\ Cardinality(IssuesOf("invalid_pin", p)) =
                   IF ~InList(p, BoardSpec.available_gpio)
                   THEN Cardinality(BindingsOn(p)) ELSE 0
            /\ Cardinality(IssuesOf("reserved_pin", p)) =
                   IF /\ InList(p, BoardSpec.available_gpio)
                      /\ InList(p, BoardSpec.reserved)
                   THEN Cardinality(BindingsOn(p)) ELSE 0
            /\ \A k \in IssuesOf("invalid_pin", p) :
                   issues[k].severity = "critical"
            /\ \A k \in IssuesOf("reserved_pin", p) :
                   issues[k].severity = "warning"
            /\ IssuesOf("invalid_pin", p) = {} \/ IssuesOf("reserved_pin", p) = {}

C15_Witness ==
    /\ pc = "validated"
    /\ board_type = "esp32"
    /\ Len(connections) = 2
    /\ Parsed(1) = 50 /\ Parsed(2) = 0
    /\ IssuesOf("invalid_pin", 50) # {}
    /\ IssuesOf("reserved_pin", 0) # {}

(***************************************************************************)
(* C16.  When the validation loop has ended, every PWM (ADC) binding whose *)
(* pin is not PWM-capable (ADC-capable) has a Critical wrong_capability    *)
(* issue, also when its pin is not in available_gpio or is reserved; and   *)
(* every wrong_capability issue is about such a binding.                   *)
(***************************************************************************)
CapabilityIssues(i) ==
    {k \in DOMAIN issues :
        /\ issues[k].type = "wrong_capability"
        /\ issues[k].severity = "critical"
        /\ issues[k].msg_pin = Parsed(i)
        /\ issues[k].msg_cap = Role(i)
        /\ issues[k].msg_component = Component(i)}

Mismatched(i) ==
    /\ Role(i) \in {"PWM", "ADC"}
    /\ Parsed(i) \notin ListPins(RequiredList(Role(i)))

C16_MismatchAlwaysReported ==
    pc = "validated" =>
        /\ \A i \in Bindings : Mismatched(i) => CapabilityIssues(i) # {}
        /\ \A k \in DOMAIN issues :
              issues[k].type = "wrong_capability" =>
                  \E i \in Bindings : Mismatched(i) /\ k \in CapabilityIssues(i)

(***************************************************************************)
(* C17.  The suggestion of a wrong_capability issue names no pin that      *)
(* another binding of the input holds, and the pin it names first is the   *)
(* lowest pin of the required capability that no other binding holds.      *)
(* (One entry per component.)                                              *)
(***************************************************************************)
PinsOfOthers(i) == {Parsed(j) : j \in Bindings \ {i}}

C17_SuggestionIsLowestFree ==
    (pc = "validated" /\ OneEntryPerComponent) =>
        \A i \in Bindings : \A k \in CapabilityIssues(i) :
            LET free == ListPins(RequiredList(Role(i))) \ PinsOfOthers(i)
                fix == issues[k].suggested_fix.pins
            IN free # {} =>
                  /\ fix # << >>
                  /\ fix[1] = CHOOSE p \in free : \A q \in free : p <= q
                  /\ ListPins(fix) \cap PinsOfOthers(i) = {}

(***************************************************************************)
(* C18.  When the validation loop has ended, there is exactly one Critical *)
(* conflict issue for each pin that more than one binding declares and     *)
(* none for any other pin, and the conflict issues come after all the      *)
(* other issues.  (One entry per component.)                               *)
(***************************************************************************)
C18_OneConflictPerGroup ==
    (pc = "validated" /\ OneEntryPerComponent) =>
        /\ \A p \in {Parsed(i) : i \in Bindings} :
              /\ Cardinality(IssuesOf("conflict", p)) =
                     IF Cardinality(BindingsOn(p)) > 1 THEN 1 ELSE 0
              /\ \A k \in IssuesOf("conflict", p) :
                     issues[k].severity = "critical"
        /\ \A k, m \in DOMAIN issues :
              (issues[k].type = "conflict" /\ issues[m].type # "conflict")
                  => m < k

(***************************************************************************)
(* C19.  A binding whose only issue is a reserved_pin Warning, its pin     *)
(* declared by no other binding, holds its pin after resolve and the       *)
(* returned list holds its Warning, also when the repair ran.  (One entry  *)
(* per component.)                                                         *)
(***************************************************************************)
OnlyReserved(i) ==
    /\ LET own == _validate_pin(board_type, Parsed(i), Role(i), Component(i))
       IN Len(own) = 1 /\ own[1].type = "reserved_pin"
    /\ BindingsOn(Parsed(i)) = {i}

C19_ReservedIsAdvisory ==
    (pc = "done" /\ OneEntryPerComponent) =>
        \A i \in Bindings :
            OnlyReserved(i) =>
                /\ Held(i) = Parsed(i)
                /\ \E k \in IssuesOf("reserved_pin", Parsed(i)) :
                       issues[k].severity = "warning"

(***************************************************************************)
(* C20.  For a board key that is not in BOARD_SPECS, every PWM or ADC      *)
(* binding keeps its pin through resolve and has a Critical                *)
(* wrong_capability issue without a suggested pin in the returned list.    *)
(* (One entry per component.)                                              *)
(***************************************************************************)
C20_UnknownBoardIsGeneric ==
    (pc = "done" /\ OneEntryPerComponent
                 /\ board_type \notin DOMAIN BOARD_SPECS) =>
        \A i \in Bindings :
            Role(i) \in {"PWM", "ADC"} =>
                /\ Held(i) = Parsed(i)
                /\ \E k \in DOMAIN issues :
                       /\ issues[k].type = "wrong_capability"
                       /\ issues[k].severity = "critical"
                       /\ issues[k].msg_component = Component(i)
                       /\ issues[k].suggested_fix.pins = << >>

(***************************************************************************)
(* C21.  When the validation loop has ended, every entry whose raw pin     *)
(* holds no digit has an invalid_pin issue at Warning severity, and its    *)
(* component is not recorded on a pin of available_gpio.  (One entry per   *)
(* component.)                                                             *)
(***************************************************************************)
Unparsable(i) == connections[i].mcu_pin.runs = << >>

C21_UnparsablePinIsReported ==
    (pc = "validated" /\ OneEntryPerComponent) =>
        \A i \in Bindings :
            Unparsable(i) =>
                /\ \E k \in DOMAIN issues :
                       /\ issues[k].type = "invalid_pin"
                       /\ issues[k].severity = "warning"
                /\ ~InList(resolved[Component(i)], BoardSpec.available_gpio)

(***************************************************************************)
(* C22.  In every profile of BOARD_SPECS the PWM pins, the ADC pins and    *)
(* the reserved pins are pins of available_gpio; in particular in the      *)
(* profile the request runs on.                                            *)
(***************************************************************************)
ProfileIsClosed(spec) ==
    /\ ListPins(spec.pwm_capable) \subseteq ListPins(spec.available_gpio)
    /\ ListPins(spec.adc_capable) \subseteq ListPins(spec.available_gpio)
    /\ ListPins(spec.reserved) \subseteq ListPins(spec.available_gpio)

C22_ProfilesAreClosed ==
    /\ ProfileIsClosed(BoardSpec)
    /\ \A b \in DOMAIN BOARD_SPECS : ProfileIsClosed(BOARD_SPECS[b])

(***************************************************************************)
(* C30.  From the end of the validation loop on, the keys of the mapping   *)
(* are exactly the component names of the input: the repair adds no key    *)
(* and removes none.                                                       *)
(***************************************************************************)
C30_KeysAreInputComponents ==
    pc \in {"validated", "fixing", "done"} =>
        DOMAIN CurrentMap = {Component(i) : i \in Bindings}

(***************************************************************************)
(* C23.  Whatever requests the process serves, on whatever boards, with    *)
(* get_constraints, validation or repair, BOARD_SPECS holds the lists it   *)
(* was loaded with.                                                        *)
(***************************************************************************)
C23_CatalogNeverMutated == board_specs = BOARD_SPECS

C23_Witness ==
    /\ pc = "done"
    /\ Len(log) = 2
    /\ constraints # NoConstraints
    /\ log[1].board_type # log[2].board_type
    /\ log[2].resolved # Validation(log[2].board_type,
                                    log[2].connections).resolved
    /\ resolved # Validation(board_type, connections).resolved

(***************************************************************************)
(* C24.  In the pin header of a build, the value of the define of each     *)
(* component's entry is the pin that validate_and_resolve returned for     *)
(* that component.  (One entry per component.)                             *)
(***************************************************************************)
C24_HeaderEmbedsResolvedMap ==
    (pc = "assembled" /\ OneEntryPerComponent) =>
        \A k \in DOMAIN resolved_pins_h :
            _parse_pin_number(resolved_pins_h[k].value) =
                resolved[connections[k].component]

(***************************************************************************)
(* Pins that two calls of auto_assign_pins since the last reset handed     *)
(* out.                                                                    *)
(***************************************************************************)
HandedTwice ==
    {pin \in DOMAIN pin_usage :
        \E a, b \in DOMAIN mapper_log :
            /\ a < b
            /\ pin \in DictValues(mapper_log[a].assigned_pins)
            /\ pin \in DictValues(mapper_log[b].assigned_pins)}

(***************************************************************************)
(* C25.  A usage report is produced without any change of the mapper, and  *)
(* its conflicts are exactly the pins that two peripherals hold.           *)
(***************************************************************************)
C25_ReportListsConflicts ==
    [][usage_report' # usage_report =>
          /\ pin_usage' = pin_usage
          /\ {c.pin : c \in usage_report'.conflicts} = HandedTwice]_vars

(***************************************************************************)
(* C27.  A pin that two calls of auto_assign_pins since the last reset     *)
(* handed out has an entry of severity error in detect_conflicts.          *)
(***************************************************************************)
C27_DetectConflictsSeesSharedPin ==
    \A pin \in HandedTwice :
        \E c \in detect_conflicts(mapper_call.board_type, pin_usage) :
            c.pin = pin /\ c.severity = "error"

(***************************************************************************)
(* C28.  In a sequence of calls of auto_assign_pins on one board since the *)
(* last reset, no call returns a pin that pin_usage already records.       *)
(***************************************************************************)
C28_NeverHandsOutUsedPin ==
    [][(/\ mapper_calls' = mapper_calls + 1
        /\ \A k \in DOMAIN mapper_log :
               mapper_log[k].board_type = mapper_call'.board_type)
       => DictValues(assigned_pins') \cap DOMAIN pin_usage = {}]_vars

(***************************************************************************)
(* The context of a project's conversation, as ConversationState.get       *)
(* returns it.                                                             *)
(***************************************************************************)
Context(project_id) == StatesGet(states, project_id)[project_id]

(***************************************************************************)
(* C26.  A request to /chat calls generate_firmware only when it is        *)
(* classified CONFIRMATION in the state READY; a conversation becomes      *)
(* READY only by a BUILD_INTENT or CLARIFICATION message that leaves a     *)
(* pending request and no question to ask; a SMALL_TALK message calls no   *)
(* generation and changes the context of no conversation.                  *)
(***************************************************************************)
C26_IntentGate ==
    [][chat_count' = chat_count + 1 =>
          LET p == chat_request'.project_id
              before == Context(p)
              after == StatesGet(states', p)[p]
          IN /\ generations' # generations =>
                   chat_intent' = "CONFIRMATION" /\ before.state = "READY"
             /\ (after.state = "READY" /\ before.state # "READY") =>
                   /\ chat_intent' \in {"BUILD_INTENT", "CLARIFICATION"}
                   /\ after.pending_request # NoRequest
                   /\ generate_clarification_question(after) = PyNone
             /\ chat_intent' = "SMALL_TALK" =>
                   /\ generations' = generations
                   /\ \A q \in ProjectIds :
                          StatesGet(states', q)[q] = Context(q)]_vars

\* A greeting in the middle of a clarification: the conversation is still
\* CLARIFYING with its question, and nothing was generated.
C26_Witness ==
    /\ chat_count >= 2
    /\ chat_intent = "SMALL_TALK"
    /\ Context(chat_request.project_id).state = "CLARIFYING"
    /\ Context(chat_request.project_id).last_question = BehaviorQuestion
    /\ generations = 0

(***************************************************************************)
(* C29.  An answer to the question about the behaviour, the last of the    *)
(* clarification questions, moves the conversation to READY.               *)
(***************************************************************************)
C29_AnswersReachReady ==
    [][(/\ chat_count' = chat_count + 1
        /\ chat_intent' = "CLARIFICATION"
        /\ Context(chat_request'.project_id).last_question
               = BehaviorQuestion)
       => StatesGet(states', chat_request'.project_id)
              [chat_request'.project_id].state = "READY"]_vars

====
